---- MODULE Spec2Model ----
(***************************************************************************)
(* Model of src/paloA.py, the Streamlit script of the Employee Engagement  *)
(* and Burnout dashboard.  One execution of the script is one render: the  *)
(* table is loaded through st.cache_data, three derived columns are added, *)
(* the rows are filtered by the Department multiselect, the KPI row, the   *)
(* per-JobRole summary and the preventive high-risk list are computed.     *)
(* A change of the multiselect reruns the script from its first line.      *)
(*                                                                         *)
(* pandas float cells are modelled as exact rationals [num, den]; den = 0  *)
(* is NaN.  Chart calls (plotly, st.plotly_chart) have no effect on the    *)
(* script's data and are not modelled.                                     *)
(***************************************************************************)
EXTENDS Integers, Sequences, FiniteSets

VARIABLES
    source,      \* rows of "Palo Alto Networks.csv" (static for the process)
    cache,       \* st.cache_data entry of load_data(): NoCache or the table
    loads,       \* number of executions of pd.read_csv
    selection,   \* widget state of the Department multiselect
    pc,          \* position of the current script run
    fromCache,   \* whether load_data() of this run was served by the cache
    df,          \* the script's df
    dept,        \* the script's dept, as a set
    kpi,         \* values computed in the KPI section
    engagement_counts, \* value counts of EngagementIndex, sorted by value
    burnout_df,  \* the per-JobRole summary, sorted
    risk_df,     \* the preventive high-risk rows
    warning,     \* count and percentage shown by st.warning
    error        \* exception that ended the run, or "none"

vars == <<source, cache, loads, selection, pc, fromCache, df, dept, kpi,
          engagement_counts, burnout_df, risk_df, warning, error>>

\* Largest number of rows of the source table.
MaxRows == 3

-----------------------------------------------------------------------------
(* Cell values *)

Departments == {"Research & Development", "Sales"}

\* JobRole values, listed in ascending string order (the order groupby
\* sorts its keys by).
JobRoleOrder == <<"Laboratory Technician", "Manager", "Sales Executive">>

JobRoles == {JobRoleOrder[i] : i \in 1..Len(JobRoleOrder)}

\* Position of a JobRole in ascending string order.
RoleRank(role) == CHOOSE i \in 1..Len(JobRoleOrder) : JobRoleOrder[i] = role

\* "Yes" and "No", and a cell that is neither.
YesNo == {"Yes", "No"}

Categorical == YesNo \cup {"Unknown"}

\* The ordinal scale of the satisfaction and balance columns.
Scale == 1..4

\* A float cell: the rational num/den; den = 0 is NaN.
Float(n) == [num |-> n, den |-> 1]

Ratio(n, d) == [num |-> n, den |-> d]

NaN == [num |-> 0, den |-> 0]

IsNaN(x) == x.den = 0

\* Comparisons of float cells; every comparison with NaN is False.
EqF(x, y) == ~IsNaN(x) /\ ~IsNaN(y) /\ x.num * y.den = y.num * x.den

LeF(x, y) == ~IsNaN(x) /\ ~IsNaN(y) /\ x.num * y.den <= y.num * x.den

LtF(x, y) == ~IsNaN(x) /\ ~IsNaN(y) /\ x.num * y.den < y.num * x.den

GtF(x, y) == LtF(y, x)

\* x * k for an integer k.
MulF(x, k) == IF IsNaN(x) THEN NaN ELSE Ratio(x.num * k, x.den)

AddF(x, y) ==
    IF IsNaN(x) \/ IsNaN(y) THEN NaN
    ELSE Ratio(x.num * y.den + y.num * x.den, x.den * y.den)

RECURSIVE SumF(_)
SumF(s) == IF s = <<>> THEN Float(0) ELSE AddF(Head(s), SumF(Tail(s)))

\* Series.mean(): NaN cells are skipped; the mean of no cell is NaN.
Mean(s) ==
    LET present == SelectSeq(s, LAMBDA x : ~IsNaN(x))
        total == SumF(present)
    IN  IF present = <<>> THEN NaN
        ELSE Ratio(total.num, total.den * Len(present))

RECURSIVE Pow10(_)
Pow10(k) == IF k = 0 THEN 1 ELSE 10 * Pow10(k - 1)

\* round(x, ndigits) of a non-negative float: to the nearest multiple of
\* 10^-ndigits, a tie to the even one; round(nan, ndigits) is nan.
Round(x, ndigits) ==
    IF IsNaN(x) THEN NaN
    ELSE LET p == x.num * Pow10(ndigits)
             q == x.den
             lo == p \div q
             rem == p % q
             n == IF 2 * rem < q THEN lo
                  ELSE IF 2 * rem > q THEN lo + 1
                  ELSE IF lo % 2 = 0 THEN lo ELSE lo + 1
         IN  Ratio(n, Pow10(ndigits))

\* The column of a frame: the sequence of one field's cells.
Column(frame, f) == [i \in 1..Len(frame) |-> frame[i][f]]

-----------------------------------------------------------------------------
(* LOAD DATA *)

NoCache == [present |-> FALSE, value |-> <<>>]

Cached(table) == [present |-> TRUE, value |-> table]

\* pd.read_csv: the rows of the file under a RangeIndex 0..n-1.
read_csv(file) ==
    [i \in 1..Len(file) |->
        [idx |-> i - 1,
         Department |-> file[i].Department,
         JobRole |-> file[i].JobRole,
         Attrition |-> file[i].Attrition,
         OverTime |-> file[i].OverTime,
         JobSatisfaction |-> file[i].JobSatisfaction,
         EnvironmentSatisfaction |-> file[i].EnvironmentSatisfaction,
         WorkLifeBalance |-> file[i].WorkLifeBalance]]

\* load_data without a cache: every call reads the file.
CacheHitNever(c) == FALSE

\* st.cache_data: whether load_data() has a cached return value.
CacheHit(c) == c.present

-----------------------------------------------------------------------------
(* DATA PREP *)

\* A mapping that turns every value other than "Yes" into 0.
MapYesNoCoerce(v) == IF v = "Yes" THEN Float(1) ELSE Float(0)

\* Series.map({"Yes": 1, "No": 0}): a value that is no key of the dict maps
\* to NaN.
MapYesNo(v) ==
    IF v = "Yes" THEN Float(1) ELSE IF v = "No" THEN Float(0) ELSE NaN

\* The sum of the three scores, not divided.
EngagementIndexSum(r) ==
    Ratio(r.JobSatisfaction + r.EnvironmentSatisfaction + r.WorkLifeBalance, 1)

\* (JobSatisfaction + EnvironmentSatisfaction + WorkLifeBalance) / 3
EngagementIndex(r) ==
    Ratio(r.JobSatisfaction + r.EnvironmentSatisfaction + r.WorkLifeBalance, 3)

\* A row in place of which the Attrition cell is overwritten by its code.
EnrichRowInPlace(r) ==
    [idx |-> r.idx,
     Department |-> r.Department,
     JobRole |-> r.JobRole,
     Attrition |-> IF r.Attrition = "Yes" THEN "1"
                   ELSE IF r.Attrition = "No" THEN "0" ELSE "nan",
     OverTime |-> r.OverTime,
     JobSatisfaction |-> r.JobSatisfaction,
     EnvironmentSatisfaction |-> r.EnvironmentSatisfaction,
     WorkLifeBalance |-> r.WorkLifeBalance,
     AttritionFlag |-> MapYesNo(r.Attrition),
     OverTimeFlag |-> MapYesNo(r.OverTime),
     EngagementIndex |-> EngagementIndex(r)]

\* The three column assignments, row by row: the raw columns are kept and
\* AttritionFlag, OverTimeFlag, EngagementIndex are set (added, or
\* overwritten when the frame already has them).
EnrichRow(r) ==
    [idx |-> r.idx,
     Department |-> r.Department,
     JobRole |-> r.JobRole,
     Attrition |-> r.Attrition,
     OverTime |-> r.OverTime,
     JobSatisfaction |-> r.JobSatisfaction,
     EnvironmentSatisfaction |-> r.EnvironmentSatisfaction,
     WorkLifeBalance |-> r.WorkLifeBalance,
     AttritionFlag |-> MapYesNo(r.Attrition),
     OverTimeFlag |-> MapYesNo(r.OverTime),
     EngagementIndex |-> EngagementIndex(r)]

EnrichFrame(frame) == [i \in 1..Len(frame) |-> EnrichRow(frame[i])]

-----------------------------------------------------------------------------
(* SIDEBAR FILTERS *)

\* Series.unique(), as a set.
Unique(frame, f) == {frame[i][f] : i \in 1..Len(frame)}

\* The value st.sidebar.multiselect returns: the default (all options) until
\* the user has chosen, then the user's choice.
DefaultSelection == [chosen |-> FALSE, values |-> {}]

Chosen(values) == [chosen |-> TRUE, values |-> values]

Multiselect(sel, options) == IF sel.chosen THEN sel.values ELSE options

\* A filter that takes an empty selection for "all departments".
FilterAllWhenEmpty(frame, allowed) ==
    IF allowed = {} THEN frame
    ELSE SelectSeq(frame, LAMBDA r : r.Department \in allowed)

\* df[df["Department"].isin(dept)]
FilterByDepartment(frame, allowed) ==
    SelectSeq(frame, LAMBDA r : r.Department \in allowed)

-----------------------------------------------------------------------------
(* KPI SECTION *)

\* cell == scalar for a cell of the Attrition column and the int 1.  The
\* column holds the strings read from the file, and a str never equals an
\* int.
StrEqualsInt(cell, scalar) == FALSE

\* df[df["Attrition"] == 1].shape[0]
AttritionCount(frame) ==
    Len(SelectSeq(frame, LAMBDA r : StrEqualsInt(r.Attrition, 1)))

\* (attrition_count / total_employees) * 100 if total_employees > 0 else 0
AttritionRate(count, total) ==
    IF total > 0 THEN Ratio(count * 100, total) ELSE Float(0)

\* A KPI mask that asks for WorkLifeBalance <= 1.
BurnoutMaskStrict(r) == EqF(r.OverTimeFlag, Float(1)) /\ r.WorkLifeBalance <= 1

\* (df['OverTimeFlag']==1) & (df['WorkLifeBalance']<=2)
BurnoutMask(r) == EqF(r.OverTimeFlag, Float(1)) /\ r.WorkLifeBalance <= 2

\* The values of the KPI section for a frame with at least one row.
KPIValues(frame) ==
    LET total_employees == Len(frame)
        attrition_count == AttritionCount(frame)
        burnout_count == Len(SelectSeq(frame, BurnoutMask))
    IN  [total_employees |-> total_employees,
         attrition_count |-> attrition_count,
         attrition_rate |-> AttritionRate(attrition_count, total_employees),
         avg_engagement |-> Round(Mean(Column(frame, "EngagementIndex")), 2),
         overtime_pct |->
             Round(MulF(Mean(Column(frame, "OverTimeFlag")), 100), 1),
         burnout_count |-> burnout_count,
         burnout_pct |-> Round(Ratio(burnout_count * 100, Len(frame)), 1)]

\* The values the KPI section has computed when line 83 divides by
\* len(df) = 0: the first three metrics are set, the fourth raises.
KPIValuesEmpty(frame) ==
    [total_employees |-> 0,
     attrition_count |-> AttritionCount(frame),
     attrition_rate |-> AttritionRate(AttritionCount(frame), 0),
     avg_engagement |-> Round(Mean(Column(frame, "EngagementIndex")), 2),
     overtime_pct |-> Round(MulF(Mean(Column(frame, "OverTimeFlag")), 100), 1),
     burnout_count |-> 0,
     burnout_pct |-> NaN]

NoKPI ==
    [total_employees |-> 0, attrition_count |-> 0, attrition_rate |-> NaN,
     avg_engagement |-> NaN, overtime_pct |-> NaN, burnout_count |-> 0,
     burnout_pct |-> NaN]

-----------------------------------------------------------------------------
(* ENGAGEMENT HEALTH INDEX *)

RECURSIVE SortValues(_)
\* The distinct float values of a set, ascending.
SortValues(values) ==
    IF values = {} THEN <<>>
    ELSE LET least == CHOOSE x \in values : \A y \in values : LeF(x, y)
         IN  <<least>> \o SortValues({y \in values : ~EqF(y, least)})

\* df["EngagementIndex"].value_counts().reset_index(), columns renamed,
\* then sort_values("EngagementIndex"): one row per distinct value.
EngagementCounts(frame) ==
    LET column == Column(frame, "EngagementIndex")
        values == SortValues({column[i] : i \in 1..Len(column)})
    IN  [k \in 1..Len(values) |->
            [EngagementIndex |-> values[k],
             Count |-> Cardinality({i \in 1..Len(column) :
                                       EqF(column[i], values[k])})]]

-----------------------------------------------------------------------------
(* BURNOUT PRONE GROUPS *)

\* The group keys of df.groupby("JobRole"): the JobRole values of the frame,
\* sorted ascending (groupby's default sort=True).
GroupKeys(frame) ==
    SelectSeq(JobRoleOrder, LAMBDA role : role \in Unique(frame, "JobRole"))

\* .agg({...: "mean"}).reset_index(): one row per key with the three means.
GroupMeans(frame) ==
    LET keys == GroupKeys(frame)
        rows(role) == SelectSeq(frame, LAMBDA r : r.JobRole = role)
    IN  [k \in 1..Len(keys) |->
            [JobRole |-> keys[k],
             OverTimeFlag |-> Mean(Column(rows(keys[k]), "OverTimeFlag")),
             EngagementIndex |-> Mean(Column(rows(keys[k]), "EngagementIndex")),
             AttritionFlag |-> Mean(Column(rows(keys[k]), "AttritionFlag"))]]

\* The rearrangements of a frame's rows.
Rearrangements(frame) ==
    LET n == Len(frame)
        perms == {p \in [1..n -> 1..n] : \A i, j \in 1..n : p[i] = p[j] => i = j}
    IN  {[i \in 1..n |-> frame[p[i]]] : p \in perms}

\* Rows in descending order of OverTimeFlag.
Descending(frame) ==
    \A i, j \in 1..Len(frame) :
        i < j => ~LtF(frame[i].OverTimeFlag, frame[j].OverTimeFlag)

\* Rows in the order sort_values(by="OverTimeFlag", ascending=True) asks
\* for: no row before a row of smaller OverTimeFlag, NaN rows last.
Ascending(frame) ==
    \A i, j \in 1..Len(frame) :
        i < j => /\ ~LtF(frame[j].OverTimeFlag, frame[i].OverTimeFlag)
                 /\ IsNaN(frame[i].OverTimeFlag) => IsNaN(frame[j].OverTimeFlag)

\* The frames sort_values may return.  Its default kind is "quicksort",
\* which is not stable: rows of equal OverTimeFlag come in any order.
SortOutcomes(frame) == {s \in Rearrangements(frame) : Ascending(s)}

-----------------------------------------------------------------------------
(* PREVENTIVE INSIGHTS *)

\* A mask that joins the three conditions by "or".
RiskMaskAny(r) ==
    \/ EqF(r.OverTimeFlag, Float(1))
    \/ r.WorkLifeBalance <= 2
    \/ LeF(r.EngagementIndex, Ratio(25, 10))

\* (OverTimeFlag == 1) & (WorkLifeBalance <= 2) & (EngagementIndex <= 2.5)
RiskMask(r) ==
    /\ EqF(r.OverTimeFlag, Float(1))
    /\ r.WorkLifeBalance <= 2
    /\ LeF(r.EngagementIndex, Ratio(25, 10))

\* The count and the percentage of the st.warning text.
Warning(risk, frame) ==
    [count |-> Len(risk),
     pct |-> Round(Ratio(Len(risk) * 100, Len(frame)), 1)]

NoWarning == [count |-> 0, pct |-> NaN]

-----------------------------------------------------------------------------
(* The script *)

\* A run starts at the first line with the script's names unbound.
FreshRun ==
    /\ pc' = "start"
    /\ fromCache' = FALSE
    /\ df' = <<>>
    /\ dept' = {}
    /\ kpi' = NoKPI
    /\ engagement_counts' = <<>>
    /\ burnout_df' = <<>>
    /\ risk_df' = <<>>
    /\ warning' = NoWarning
    /\ error' = "none"

\* df = load_data(), first call: the file is read and the return value is
\* stored; the script gets its own copy.
LoadMiss ==
    /\ pc = "start"
    /\ ~CacheHit(cache)
    /\ cache' = Cached(read_csv(source))
    /\ loads' = loads + 1
    /\ df' = read_csv(source)
    /\ fromCache' = FALSE
    /\ pc' = "loaded"
    /\ UNCHANGED <<source, selection, dept, kpi, engagement_counts,
                   burnout_df, risk_df, warning, error>>

\* df = load_data(), later calls: a copy of the stored value is returned.
LoadHit ==
    /\ pc = "start"
    /\ CacheHit(cache)
    /\ df' = cache.value
    /\ fromCache' = TRUE
    /\ pc' = "loaded"
    /\ UNCHANGED <<source, cache, loads, selection, dept, kpi,
                   engagement_counts, burnout_df, risk_df, warning, error>>

\* DATA PREP: the three derived columns are set on the script's df.
DataPrep ==
    /\ pc = "loaded"
    /\ df' = EnrichFrame(df)
    /\ pc' = "prepared"
    /\ UNCHANGED <<source, cache, loads, selection, fromCache, dept, kpi,
                   engagement_counts, burnout_df, risk_df, warning, error>>

\* SIDEBAR FILTERS: dept is read from the multiselect and df is filtered.
SidebarFilter ==
    /\ pc = "prepared"
    /\ dept' = Multiselect(selection, Unique(df, "Department"))
    /\ df' = FilterByDepartment(df, dept')
    /\ pc' = "filtered"
    /\ UNCHANGED <<source, cache, loads, selection, fromCache, kpi,
                   engagement_counts, burnout_df, risk_df, warning, error>>

\* KPI SECTION on a frame with rows.
KPISection ==
    /\ pc = "filtered"
    /\ Len(df) > 0
    /\ kpi' = KPIValues(df)
    /\ pc' = "kpi"
    /\ UNCHANGED <<source, cache, loads, selection, fromCache, df, dept,
                   engagement_counts, burnout_df, risk_df, warning, error>>

\* KPI SECTION on a frame without rows: len(...) / len(df) on line 83
\* raises ZeroDivisionError and the run ends there.
KPISectionZeroDivision ==
    /\ pc = "filtered"
    /\ Len(df) = 0
    /\ kpi' = KPIValuesEmpty(df)
    /\ error' = "ZeroDivisionError"
    /\ pc' = "error"
    /\ UNCHANGED <<source, cache, loads, selection, fromCache, df, dept,
                   engagement_counts, burnout_df, risk_df, warning>>

\* ENGAGEMENT HEALTH INDEX and BURNOUT PRONE GROUPS: the value counts and
\* the sorted per-JobRole summary.
Charts ==
    /\ pc = "kpi"
    /\ engagement_counts' = EngagementCounts(df)
    /\ burnout_df' \in SortOutcomes(GroupMeans(df))
    /\ pc' = "grouped"
    /\ UNCHANGED <<source, cache, loads, selection, fromCache, df, dept, kpi,
                   risk_df, warning, error>>

\* PREVENTIVE INSIGHTS: the high-risk rows and the warning.  len(df) > 0
\* here, a run with an empty df having ended on line 83.
PreventiveInsights ==
    /\ pc = "grouped"
    /\ risk_df' = SelectSeq(df, RiskMask)
    /\ warning' = Warning(risk_df', df)
    /\ pc' = "done"
    /\ UNCHANGED <<source, cache, loads, selection, fromCache, df, dept, kpi,
                   engagement_counts, burnout_df, error>>

\* The user changes the Department multiselect (or reloads the page, which
\* resets it to its default): the script runs again from the top.  The
\* options offered are the departments of the whole table (line 51).
Rerun ==
    /\ pc \in {"done", "error"}
    /\ \E sel \in {DefaultSelection} \cup
                  {Chosen(S) : S \in SUBSET Unique(read_csv(source), "Department")} :
           selection' = sel
    /\ FreshRun
    /\ UNCHANGED <<source, cache, loads>>

Next ==
    \/ LoadMiss
    \/ LoadHit
    \/ DataPrep
    \/ SidebarFilter
    \/ KPISection
    \/ KPISectionZeroDivision
    \/ Charts
    \/ PreventiveInsights
    \/ Rerun

\* The rows of a file: every field drawn from the given sets.
Rows(depts, roles, attr, over, js, es, wlb) ==
    [Department : depts, JobRole : roles, Attrition : attr, OverTime : over,
     JobSatisfaction : js, EnvironmentSatisfaction : es, WorkLifeBalance : wlb]

\* The files of at most MaxRows rows.
Files(rows) == UNION {[1..n -> rows] : n \in 0..MaxRows}

\* The process starts with an empty cache and a first run on a given file.
InitOn(files) ==
    /\ source \in files
    /\ cache = NoCache
    /\ loads = 0
    /\ selection = DefaultSelection
    /\ pc = "start"
    /\ fromCache = FALSE
    /\ df = <<>>
    /\ dept = {}
    /\ kpi = NoKPI
    /\ engagement_counts = <<>>
    /\ burnout_df = <<>>
    /\ risk_df = <<>>
    /\ warning = NoWarning
    /\ error = "none"

\* Files that vary in Department, JobRole and Attrition.
Init ==
    InitOn(Files(Rows(Departments, {"Manager", "Sales Executive"}, YesNo,
                      {"No"}, {3}, {3}, {3})))

Spec == Init /\ [][Next]_vars

\* Files that vary in the inputs of the two burnout rules.
InitRisk ==
    InitOn(Files(Rows({"Sales"}, {"Manager"}, {"No"}, Categorical,
                      {1, 4}, {2}, {2, 3})))

SpecRisk == InitRisk /\ [][Next]_vars

\* Files that vary in Attrition, OverTime and WorkLifeBalance.
InitKPI ==
    InitOn(Files(Rows({"Sales"}, {"Manager"}, Categorical, YesNo,
                      {3}, {3}, {1, 3})))

SpecKPI == InitKPI /\ [][Next]_vars

\* Files that vary in JobRole and OverTime.
InitGroups ==
    InitOn(Files(Rows({"Sales"}, JobRoles, {"No"}, Categorical,
                      {3}, {3}, {3})))

SpecGroups == InitGroups /\ [][Next]_vars

\* Files that vary in Attrition and OverTime, malformed cells included.
InitFlags ==
    InitOn(Files(Rows({"Sales"}, {"Manager"}, Categorical, Categorical,
                      {3}, {3}, {3})))

SpecFlags == InitFlags /\ [][Next]_vars

\* Files that vary in the three scores; 5 is a score off the 1..4 scale.
InitEngagement ==
    InitOn(Files(Rows({"Sales"}, {"Manager"}, {"No"}, {"No"},
                      {1, 4, 5}, {1, 4}, {2, 4})))

SpecEngagement == InitEngagement /\ [][Next]_vars

-----------------------------------------------------------------------------
(* Properties *)

PostPrep == {"prepared", "filtered", "kpi", "grouped", "done", "error"}

PostFilter == {"filtered", "kpi", "grouped", "done", "error"}

PostKPI == {"kpi", "grouped", "done", "error"}

PostCharts == {"grouped", "done"}

\* The rows of a frame, as a set.
RowSet(frame) == {frame[i] : i \in 1..Len(frame)}

\* The rows of a frame come in the order of their index labels.
InIndexOrder(frame) ==
    \A k, l \in 1..Len(frame) : k < l => frame[k].idx < frame[l].idx

\* The three conditions of the high-risk rule, on one row.
WorksOvertime(r) == r.OverTimeFlag = Float(1)

LowBalance(r) == r.WorkLifeBalance <= 2

LowEngagement(r) == 10 * r.EngagementIndex.num <= 25 * r.EngagementIndex.den

HowMany(r) ==
    (IF WorksOvertime(r) THEN 1 ELSE 0) + (IF LowBalance(r) THEN 1 ELSE 0)
    + (IF LowEngagement(r) THEN 1 ELSE 0)

\* C1: the preventive high-risk list holds exactly the rows of the dataset
\* with OverTimeFlag = 1 and WorkLifeBalance <= 2 and EngagementIndex <= 2.5,
\* unchanged and in their original order; a row meeting fewer than three of
\* the conditions is not listed, and the list is empty when no row meets
\* all three.
C1_RiskIsConjunction ==
    pc = "done" =>
        /\ \A r \in RowSet(df) : r \in RowSet(risk_df) <=> HowMany(r) = 3
        /\ RowSet(risk_df) \subseteq RowSet(df)
        /\ InIndexOrder(risk_df)
        /\ (\A r \in RowSet(df) : HowMany(r) < 3) => risk_df = <<>>

C1_Witness ==
    /\ pc = "done"
    /\ Len(risk_df) = 2
    /\ \E r \in RowSet(df) : HowMany(r) = 2

\* C10: every row of the preventive high-risk list is counted by the
\* "High Burnout Risk %" KPI; the warning's count and percentage do not
\* exceed the KPI's, and the counts differ by the number of rows with
\* OverTimeFlag = 1, WorkLifeBalance <= 2 and EngagementIndex > 2.5.
C10_RiskWithinKPI ==
    pc = "done" =>
        LET counted == {r \in RowSet(df) : WorksOvertime(r) /\ LowBalance(r)}
            engaged == {r \in counted : ~LowEngagement(r)}
        IN  /\ Len(df) > 0
            /\ RowSet(risk_df) \subseteq counted
            /\ kpi.burnout_count = Cardinality(counted)
            /\ warning.count = Len(risk_df)
            /\ warning.count <= kpi.burnout_count
            /\ LeF(warning.pct, kpi.burnout_pct)
            /\ kpi.burnout_count - warning.count = Cardinality(engaged)

C10_Witness ==
    /\ pc = "done"
    /\ warning.count >= 1
    /\ kpi.burnout_count > warning.count
    /\ LtF(warning.pct, kpi.burnout_pct)

\* C2 as stated: on a dataset of no rows every KPI percentage is 0 and the
\* run ends without an exception.
C2_EmptyDatasetKPIsAreZero ==
    (pc \in PostKPI /\ Len(df) = 0) =>
        /\ error = "none"
        /\ EqF(kpi.attrition_rate, Float(0))
        /\ EqF(kpi.overtime_pct, Float(0))
        /\ EqF(kpi.burnout_pct, Float(0))

\* The number of rows of a frame whose employee has left.
Leavers(frame) == Cardinality({r \in RowSet(frame) : r.Attrition = "Yes"})

\* C3 as stated: on a dataset whose Attrition cells are all "Yes" or "No",
\* the attrition rate is 100 * (rows with Attrition = "Yes") / (rows), 0 on
\* no rows, and above 0 when some row has Attrition = "Yes".
C3_AttritionRateCountsLeavers ==
    (pc \in PostKPI /\ \A r \in RowSet(df) : r.Attrition \in YesNo) =>
        /\ Len(df) = 0 => EqF(kpi.attrition_rate, Float(0))
        /\ Len(df) > 0 =>
               EqF(kpi.attrition_rate, Ratio(100 * Leavers(df), Len(df)))
        /\ Leavers(df) > 0 => GtF(kpi.attrition_rate, Float(0))

\* C4: the Department filter keeps a row exactly when its Department is in
\* the selected set, keeps the rows unchanged and in their order, returns
\* no row for the empty selection, and returns its own result unchanged
\* when applied to it again.
C4_FilterKeepsSelected ==
    [][pc = "prepared" =>
        /\ \A r \in RowSet(df) : r \in RowSet(df') <=> r.Department \in dept'
        /\ RowSet(df') \subseteq RowSet(df)
        /\ InIndexOrder(df')
        /\ dept' = {} => df' = <<>>
        /\ FilterByDepartment(df', dept') = df']_vars

C4_Witness ==
    /\ pc = "filtered"
    /\ dept # {}
    /\ Len(df) = 2
    /\ Len(source) = 3

\* The raw cells of a row of df are those of the source row it comes from.
SameRawCells(r, raw) ==
    /\ r.Department = raw.Department
    /\ r.JobRole = raw.JobRole
    /\ r.Attrition = raw.Attrition
    /\ r.OverTime = raw.OverTime
    /\ r.JobSatisfaction = raw.JobSatisfaction
    /\ r.EnvironmentSatisfaction = raw.EnvironmentSatisfaction
    /\ r.WorkLifeBalance = raw.WorkLifeBalance

\* C5: over any sequence of renders the file is read at most once, the
\* cached table stays the table read, and the dataset of a render is the
\* source rows whose Department is in that render's selection.
C5_LoadOnceRenderIndependent ==
    /\ loads <= 1
    /\ cache.present =>
           /\ loads = 1
           /\ Len(cache.value) = Len(source)
           /\ \A i \in 1..Len(source) :
                  /\ cache.value[i].idx = i - 1
                  /\ DOMAIN cache.value[i] = DOMAIN source[i] \cup {"idx"}
                  /\ SameRawCells(cache.value[i], source[i])
    /\ pc \in PostFilter =>
           /\ dept = IF selection.chosen THEN selection.values
                     ELSE {source[i].Department : i \in 1..Len(source)}
           /\ InIndexOrder(df)
           /\ \A i \in 1..Len(source) :
                  source[i].Department \in dept
                      <=> \E r \in RowSet(df) : r.idx = i - 1
           /\ \A r \in RowSet(df) : SameRawCells(r, source[r.idx + 1])

C5_Witness ==
    /\ pc = "done"
    /\ fromCache
    /\ loads = 1
    /\ selection.chosen
    /\ Len(df) = 1
    /\ Len(source) = 3

\* The position at which a JobRole first appears in a frame.
FirstAppearance(frame, role) ==
    CHOOSE i \in 1..Len(frame) :
        /\ frame[i].JobRole = role
        /\ \A j \in 1..(i - 1) : frame[j].JobRole # role

OverTimeShare(frame, role) ==
    LET yes == {r \in RowSet(frame) : r.JobRole = role /\ r.OverTime = "Yes"}
        no == {r \in RowSet(frame) : r.JobRole = role /\ r.OverTime = "No"}
    IN  Ratio(Cardinality(yes), Cardinality(yes) + Cardinality(no))

FlagIs(flag, cell) ==
    /\ cell = "Yes" => flag = Float(1)
    /\ cell = "No" => flag = Float(0)
    /\ cell \notin YesNo =>
           /\ IsNaN(flag)
           /\ flag # Float(0)
           /\ flag # Float(1)
           /\ ~EqF(flag, Float(0))
           /\ ~EqF(flag, Float(1))

\* C7: DATA PREP sets AttritionFlag (OverTimeFlag) to 1 for "Yes" and to 0
\* for "No"; for any other cell the flag is NaN, which is neither 0 nor 1,
\* and DATA PREP raises nothing.
C7_FlagsMapYesNo ==
    pc \in PostPrep =>
        /\ pc = "prepared" => error = "none"
        /\ \A r \in RowSet(df) :
               /\ FlagIs(r.AttritionFlag, r.Attrition)
               /\ FlagIs(r.OverTimeFlag, r.OverTime)
               /\ (r.Attrition \in YesNo /\ r.OverTime \in YesNo) =>
                      {r.AttritionFlag, r.OverTimeFlag}
                          \subseteq {Float(0), Float(1)}

C7_Witness ==
    /\ pc = "prepared"
    /\ \E r \in RowSet(df) : r.Attrition = "Unknown" /\ IsNaN(r.AttritionFlag)
    /\ \E r \in RowSet(df) : r.OverTime = "Yes" /\ r.OverTimeFlag = Float(1)
    /\ \E r \in RowSet(df) : r.OverTime = "Unknown" /\ r.Attrition = "No"

\* The three scores of a row.
Scores(r) == {r.JobSatisfaction, r.EnvironmentSatisfaction, r.WorkLifeBalance}

\* C8: EngagementIndex of a row is the sum of its three scores over 3 and
\* lies between the least and the greatest of them; on a non-empty dataset
\* whose scores are all in 1..4 the average EngagementIndex KPI is in [1, 4].
C8_EngagementIndexBounded ==
    /\ pc \in PostPrep =>
           \A r \in RowSet(df) :
               /\ r.EngagementIndex.den > 0
               /\ 3 * r.EngagementIndex.num
                      = (r.JobSatisfaction + r.EnvironmentSatisfaction
                             + r.WorkLifeBalance) * r.EngagementIndex.den
               /\ \E lo, hi \in Scores(r) :
                      /\ \A x \in Scores(r) : lo <= x /\ x <= hi
                      /\ LeF(Float(lo), r.EngagementIndex)
                      /\ LeF(r.EngagementIndex, Float(hi))
    /\ (/\ pc \in PostKPI
        /\ Len(df) > 0
        /\ \A r \in RowSet(df) : Scores(r) \subseteq Scale) =>
           /\ LeF(Float(1), kpi.avg_engagement)
           /\ LeF(kpi.avg_engagement, Float(4))

C8_Witness ==
    /\ pc = "kpi"
    /\ Len(df) = 3
    /\ \A r \in RowSet(df) : Scores(r) \subseteq Scale
    /\ \E r \in RowSet(df) : r.EngagementIndex = Ratio(7, 3)
    /\ \E r \in RowSet(df) : r.EngagementIndex = Ratio(12, 3)
    /\ LtF(kpi.avg_engagement, Float(4))

\* C9: setting the derived columns again on a frame that has them leaves
\* AttritionFlag, OverTimeFlag and EngagementIndex of every row, and all
\* raw cells, as they were.
C9_EnrichIdempotent ==
    pc \in PostPrep =>
        LET again == EnrichFrame(df)
        IN  /\ Len(again) = Len(df)
            /\ \A i \in 1..Len(df) :
                   /\ again[i].AttritionFlag = df[i].AttritionFlag
                   /\ again[i].OverTimeFlag = df[i].OverTimeFlag
                   /\ again[i].EngagementIndex = df[i].EngagementIndex
                   /\ again[i].idx = df[i].idx
                   /\ SameRawCells(again[i], df[i])

C9_Witness ==
    /\ pc = "prepared"
    /\ Len(df) = 3
    /\ \E r \in RowSet(df) : r.AttritionFlag = Float(1)
    /\ \E r \in RowSet(df) : IsNaN(r.OverTimeFlag)

====
